---- MODULE Spec2Model ----
(***************************************************************************)
(* Model of .github/scripts/export-to-sheets.py: the export of a GitHub    *)
(* Projects board to a Google Sheets tab.                                  *)
(*                                                                         *)
(* Representation of Python values:                                        *)
(*   - text (str) is a sequence of one-character strings;                  *)
(*   - a value that Python code inspects by type is a tagged record:       *)
(*     Str(s), Num(n), List(xs) or PyNone;                                 *)
(*   - a dict is a function whose domain is the set of its keys; keys and  *)
(*     field names are only ever compared for equality and are atoms       *)
(*     (TLA+ strings).                                                     *)
(***************************************************************************)
EXTENDS Integers, Sequences, FiniteSets, TLC

VARIABLES
  pc,              \* position of main() in the current run
  run,             \* number of the current run of the script
  env,             \* main: the environment it read, [create_new_tab]
  today,           \* datetime.now().date() as a proleptic ordinal
  pages,           \* the item source: the pages of the project's items
  cursor,          \* get_project_items: cursor of the next page request
  all_items,       \* get_project_items: the items collected so far
  fetch_error,     \* get_project_items: a page request of this run failed
  requested,       \* get_project_items: the cursor of each request of this run
  detailed_items,  \* main: the normalized items
  filtered_items,  \* main: the result of filter_items
  csv_data,        \* main: the text export_to_csv returned
  values,          \* export_csv_to_sheet: the grid parsed from csv_data
  sheets,          \* the spreadsheet: tab name -> cells of the tab
  sink,            \* the calls made to the Sheets API in this run, in order
  report,          \* what main printed at the end of this run
  prev             \* the run before this one: [report, sheets] as it ended

vars == <<pc, run, env, today, pages, cursor, all_items, fetch_error, requested,
          detailed_items, filtered_items, csv_data, values, sheets, sink,
          report, prev>>

(***************************************************************************)
(* Python values                                                           *)
(***************************************************************************)
PyNone == [t |-> "none"]

Str(s) == [t |-> "str", v |-> s]

Num(n) == [t |-> "num", v |-> n]

List(xs) == [t |-> "list", v |-> xs]

\* bool(v) of a tagged value
Truthy(v) ==
  CASE v.t = "none" -> FALSE
    [] v.t = "str" -> v.v # <<>>
    [] v.t = "num" -> v.v # 0
    [] v.t = "list" -> v.v # <<>>

\* bool(d) of a slot holding a dict or None
DictTruthy(d) == d # PyNone /\ DOMAIN d # {}

\* d.get(k, default)
Get(d, k, default) == IF k \in DOMAIN d THEN d[k] ELSE default

UpperLetters ==
  <<"A", "B", "C", "D", "E", "F", "G", "H", "I", "J", "K", "L", "M",
    "N", "O", "P", "Q", "R", "S", "T", "U", "V", "W", "X", "Y", "Z">>

LowerLetters ==
  <<"a", "b", "c", "d", "e", "f", "g", "h", "i", "j", "k", "l", "m",
    "n", "o", "p", "q", "r", "s", "t", "u", "v", "w", "x", "y", "z">>

LetterIndex(letters, c) == CHOOSE i \in DOMAIN letters : letters[i] = c

\* str.lower()
lower(s) ==
  [i \in 1..Len(s) |->
     IF \E j \in DOMAIN UpperLetters : UpperLetters[j] = s[i]
       THEN LowerLetters[LetterIndex(UpperLetters, s[i])]
       ELSE s[i]]

\* str.upper()
upper(s) ==
  [i \in 1..Len(s) |->
     IF \E j \in DOMAIN LowerLetters : LowerLetters[j] = s[i]
       THEN UpperLetters[LetterIndex(LowerLetters, s[i])]
       ELSE s[i]]

DigitChars == <<"0", "1", "2", "3", "4", "5", "6", "7", "8", "9">>

IsDigit(c) == \E i \in DOMAIN DigitChars : DigitChars[i] = c

DigitValue(c) == (CHOOSE i \in DOMAIN DigitChars : DigitChars[i] = c) - 1

RECURSIVE NatToStr(_)
NatToStr(n) ==
  IF n < 10 THEN <<DigitChars[n + 1]>>
  ELSE NatToStr(n \div 10) \o <<DigitChars[(n % 10) + 1]>>

\* str(n) of an int
IntToStr(n) == IF n < 0 THEN <<"-">> \o NatToStr(0 - n) ELSE NatToStr(n)

RECURSIVE Join(_, _)
\* sep.join(parts)
Join(sep, parts) ==
  IF parts = <<>> THEN <<>>
  ELSE IF Len(parts) = 1 THEN parts[1]
  ELSE parts[1] \o sep \o Join(sep, Tail(parts))

\* str(v) of a tagged scalar
PyStr(v) ==
  CASE v.t = "str" -> v.v
    [] v.t = "num" -> IntToStr(v.v)
    [] v.t = "none" -> <<"N", "o", "n", "e">>

(***************************************************************************)
(* Calendar dates (datetime.date) as proleptic Gregorian ordinals          *)
(***************************************************************************)
IsLeap(y) == y % 4 = 0 /\ (y % 100 # 0 \/ y % 400 = 0)

DaysInMonth(y, m) ==
  CASE m \in {1, 3, 5, 7, 8, 10, 12} -> 31
    [] m \in {4, 6, 9, 11} -> 30
    [] m = 2 -> IF IsLeap(y) THEN 29 ELSE 28

RECURSIVE DaysBeforeMonth(_, _)
DaysBeforeMonth(y, m) ==
  IF m = 1 THEN 0 ELSE DaysBeforeMonth(y, m - 1) + DaysInMonth(y, m - 1)

DaysBeforeYear(y) ==
  (y - 1) * 365 + ((y - 1) \div 4) - ((y - 1) \div 100) + ((y - 1) \div 400)

\* date(y, m, d).toordinal()
Ordinal(y, m, d) == DaysBeforeYear(y) + DaysBeforeMonth(y, m) + d

\* the month and day tokens the directives %m and %d accept
MonthToken(tok) ==
  \/ Len(tok) = 1 /\ IsDigit(tok[1]) /\ tok[1] # "0"
  \/ Len(tok) = 2 /\ tok[1] = "1" /\ tok[2] \in {"0", "1", "2"}
  \/ Len(tok) = 2 /\ tok[1] = "0" /\ IsDigit(tok[2]) /\ tok[2] # "0"

DayToken(tok) ==
  \/ Len(tok) = 1 /\ IsDigit(tok[1]) /\ tok[1] # "0"
  \/ Len(tok) = 2 /\ tok[1] = "3" /\ tok[2] \in {"0", "1"}
  \/ Len(tok) = 2 /\ tok[1] \in {"1", "2"} /\ IsDigit(tok[2])
  \/ Len(tok) = 2 /\ tok[1] \in {"0", " "} /\ IsDigit(tok[2]) /\ tok[2] # "0"

RECURSIVE TokenValue(_)
TokenValue(tok) ==
  IF tok = <<>> THEN 0
  ELSE IF tok[Len(tok)] = " " THEN 0
  ELSE 10 * TokenValue(SubSeq(tok, 1, Len(tok) - 1)) + DigitValue(tok[Len(tok)])

\* the ways s splits as YYYY-m-d: <<month length, day length>>
DateSplits(s) ==
  {ml \in {<<1, 1>>, <<1, 2>>, <<2, 1>>, <<2, 2>>} :
     /\ Len(s) = 6 + ml[1] + ml[2]
     /\ \A i \in 1..4 : IsDigit(s[i])
     /\ s[5] = "-"
     /\ s[6 + ml[1]] = "-"
     /\ MonthToken(SubSeq(s, 6, 5 + ml[1]))
     /\ DayToken(SubSeq(s, 7 + ml[1], 6 + ml[1] + ml[2]))}

NoDate == -1

\* datetime.strptime(s, '%Y-%m-%d').date(), NoDate where it raises ValueError
strptime(s) ==
  IF DateSplits(s) = {} THEN NoDate
  ELSE LET ml == CHOOSE x \in DateSplits(s) : TRUE
           y == TokenValue(SubSeq(s, 1, 4))
           m == TokenValue(SubSeq(s, 6, 5 + ml[1]))
           d == TokenValue(SubSeq(s, 7 + ml[1], 6 + ml[1] + ml[2]))
       IN IF y >= 1 /\ d <= DaysInMonth(y, m) THEN Ordinal(y, m, d) ELSE NoDate

(***************************************************************************)
(* GitHubProjectExporter.get_item_details                                  *)
(***************************************************************************)
EmptyDict == <<>>

EmptyStr == Str(<<>>)

\* the assignment, had it kept the value a key already has
PutIfAbsent(d, k, v) == d @@ (k :> v)

\* field_values[field_name] = value
Put(d, k, v) == (k :> v) @@ d

\* [x['name'] for x in content.get(key, {}).get('nodes', [])]
NodeAttrs(content, key, attr) ==
  LET nodes == Get(Get(content, key, EmptyDict), "nodes", <<>>)
  IN List([i \in 1..Len(nodes) |-> nodes[i][attr]])

\* content.get(key, {}).get(attr, '') if content.get(key) else ''
SubAttr(content, key, attr) ==
  IF DictTruthy(Get(content, key, PyNone))
    THEN Get(Get(content, key, EmptyDict), attr, EmptyStr)
    ELSE EmptyStr

ContentDetails(content) ==
  [title |-> Get(content, "title", EmptyStr),
   number |-> Get(content, "number", EmptyStr),
   state |-> Get(content, "state", EmptyStr),
   body |-> Get(content, "body", EmptyStr),
   html_url |-> Get(content, "url", EmptyStr),
   parent_issue |-> SubAttr(content, "parent", "title"),
   parent_issue_number |-> SubAttr(content, "parent", "number"),
   parent_issue_id |-> SubAttr(content, "parent", "id"),
   labels |-> NodeAttrs(content, "labels", "name"),
   assignees |-> NodeAttrs(content, "assignees", "login"),
   milestone |-> SubAttr(content, "milestone", "title"),
   created_at |-> Get(content, "createdAt", EmptyStr),
   updated_at |-> Get(content, "updatedAt", EmptyStr),
   closed_at |-> Get(content, "closedAt", EmptyStr),
   repository |-> SubAttr(content, "repository", "name")]

ContentData(item) ==
  LET content == Get(item, "content", PyNone)
  IN IF DictTruthy(content) /\ "number" \in DOMAIN content /\ "state" \in DOMAIN content
       THEN IF "mergedAt" \in DOMAIN content
              THEN ("merged_at" :> content["mergedAt"])
                     @@ ("content_type" :> "PullRequest")
                     @@ ContentDetails(content)
              ELSE ("content_type" :> "Issue") @@ ContentDetails(content)
       ELSE EmptyDict

\* field_value.get('field', {}).get('name', 'Unknown Field')
FieldName(field_value) ==
  Get(Get(field_value, "field", EmptyDict), "name", "Unknown Field")

\* one turn of the loop over item['fieldValues']['nodes']
SetFieldValue(field_values, field_value) ==
  LET field_name == FieldName(field_value)
  IN IF field_name = "Unknown Field" THEN field_values
     ELSE IF "text" \in DOMAIN field_value
       THEN Put(field_values, field_name, field_value["text"])
     ELSE IF "number" \in DOMAIN field_value
       THEN Put(field_values, field_name, field_value["number"])
     ELSE IF "date" \in DOMAIN field_value
       THEN Put(field_values, field_name, field_value["date"])
     ELSE IF "name" \in DOMAIN field_value /\ "field" \in DOMAIN field_value
       THEN Put(field_values, field_name, field_value["name"])
     ELSE field_values

RECURSIVE CustomFields(_, _)
CustomFields(nodes, field_values) ==
  IF nodes = <<>> THEN field_values
  ELSE CustomFields(Tail(nodes), SetFieldValue(field_values, Head(nodes)))

get_item_details(item) ==
  LET base == [id |-> Get(item, "id", PyNone), content_type |-> "Unknown"]
      with_content == ContentData(item) @@ base
  IN IF "fieldValues" \in DOMAIN item /\ "nodes" \in DOMAIN item["fieldValues"]
       THEN ("custom_fields" :> CustomFields(item["fieldValues"]["nodes"], EmptyDict))
              @@ with_content
       ELSE with_content

(***************************************************************************)
(* GitHubProjectExporter.filter_items                                      *)
(***************************************************************************)
excluded_assignees ==
  {<<"h", "a", "l", "l", "i", "g", "a", "t", "e", "r">>,
   <<"s", "m", "a", "n", "n", "a", "n", "9">>}

allowed_status ==
  {<<"I", "N", " ", "D", "E", "V", "E", "L", "O", "P", "M", "E", "N", "T">>,
   <<"C", "O", "M", "P", "L", "E", "T", "E", "D">>,
   <<"O", "P", "E", "N">>,
   <<"C", "L", "O", "S", "E", "D">>}

HasCustomField(item, name) ==
  "custom_fields" \in DOMAIN item /\ name \in DOMAIN item["custom_fields"]

\* the gate, had it tested the key and not its value
ParentGateKeyPresent(item) == "parent_issue_id" \in DOMAIN item

\* if not item.get('parent_issue_id'): continue
ParentGate(item) == Truthy(Get(item, "parent_issue_id", PyNone))

\* the gate, had it compared the logins as they are written
AssigneeGateCaseSensitive(item) ==
  LET assignees == Get(item, "assignees", List(<<>>))
  IN ~(Truthy(assignees)
       /\ \E i \in 1..Len(assignees.v) : assignees.v[i].v \in excluded_assignees)

\* if assignees and any(a.lower() in excluded_assignees ...): continue
AssigneeGate(item) ==
  LET assignees == Get(item, "assignees", List(<<>>))
  IN ~(Truthy(assignees)
       /\ \E i \in 1..Len(assignees.v) : lower(assignees.v[i].v) \in excluded_assignees)

StatusOf(item) ==
  IF HasCustomField(item, "Status") THEN item["custom_fields"]["Status"]
  ELSE IF "state" \in DOMAIN item THEN item["state"]
  ELSE EmptyStr

\* the gate, had it compared the status as it is written
StatusGateCaseSensitive(item) ==
  LET status ==
        IF HasCustomField(item, "Status") THEN item["custom_fields"]["Status"]
        ELSE IF "state" \in DOMAIN item THEN item["state"]
        ELSE EmptyStr
  IN ~(Truthy(status) /\ status.v \notin allowed_status)

\* if status and status.upper() not in [...]: continue
StatusGate(item) ==
  LET status == StatusOf(item)
  IN ~(Truthy(status) /\ upper(status.v) \notin allowed_status)

anticipated_release_date(item) ==
  IF HasCustomField(item, "Anticipated release date")
    THEN LET date_str == item["custom_fields"]["Anticipated release date"]
         IN IF Truthy(date_str) THEN strptime(date_str.v) ELSE NoDate
    ELSE NoDate

RetainDays == 60

GraceDays == 14

\* the gate, had it been the window from 14 days ago to 60 days ahead
date_condition_window(item, current_date) ==
  LET d == anticipated_release_date(item)
  IN \/ d = NoDate
     \/ d # NoDate /\ d <= current_date + RetainDays /\ d >= current_date - GraceDays

date_condition_met(item, current_date) ==
  LET d == anticipated_release_date(item)
  IN \/ d = NoDate
     \/ d # NoDate /\ d <= current_date + RetainDays
     \/ d # NoDate /\ d >= current_date - GraceDays

Eligible(item, current_date) ==
  /\ ParentGate(item)
  /\ AssigneeGate(item)
  /\ StatusGate(item)
  /\ date_condition_met(item, current_date)

RECURSIVE filter_items_prepending(_, _)
\* the loop, had it put each eligible item before those it kept already
filter_items_prepending(items, current_date) ==
  IF items = <<>> THEN <<>>
  ELSE filter_items_prepending(Tail(items), current_date)
         \o (IF Eligible(Head(items), current_date) THEN <<Head(items)>> ELSE <<>>)

RECURSIVE filter_items(_, _)
filter_items(items, current_date) ==
  IF items = <<>> THEN <<>>
  ELSE (IF Eligible(Head(items), current_date) THEN <<Head(items)>> ELSE <<>>)
         \o filter_items(Tail(items), current_date)

(***************************************************************************)
(* The csv module, dialect excel: writer with QUOTE_MINIMAL and the        *)
(* line terminator \r\n, reader over the lines of an io.StringIO           *)
(***************************************************************************)
RECURSIVE DoubleQuotes(_)
DoubleQuotes(s) ==
  IF s = <<>> THEN <<>>
  ELSE (IF Head(s) = "\"" THEN <<"\"", "\"">> ELSE <<Head(s)>>) \o DoubleQuotes(Tail(s))

NeedsQuotes(s) == \E i \in 1..Len(s) : s[i] \in {",", "\"", "\r", "\n"}

WriteField(s) ==
  IF NeedsQuotes(s) THEN <<"\"">> \o DoubleQuotes(s) \o <<"\"">> ELSE s

\* csv.writer(...).writerow(cells): the text appended to the output
writerow(cells) ==
  Join(<<",">>, [i \in 1..Len(cells) |-> WriteField(cells[i])]) \o <<"\r", "\n">>

\* the reader's parser: [state, field, fields, rows, error]
ReaderStart ==
  [state |-> "START_RECORD", field |-> <<>>, fields |-> <<>>, rows |-> <<>>,
   error |-> FALSE]

SaveField(r) == [r EXCEPT !.fields = Append(@, r.field), !.field = <<>>]

AddChar(r, c) == [r EXCEPT !.field = Append(@, c)]

\* parse_process_char for a character of the line
ProcessChar(r, c) ==
  LET start == IF r.state = "START_RECORD" /\ c \notin {"\n", "\r"}
                 THEN "START_FIELD" ELSE r.state
  IN CASE start = "START_RECORD" -> [r EXCEPT !.state = "EAT_CRNL"]
       [] start = "START_FIELD" ->
            IF c \in {"\n", "\r"} THEN [SaveField(r) EXCEPT !.state = "EAT_CRNL"]
            ELSE IF c = "\"" THEN [r EXCEPT !.state = "IN_QUOTED_FIELD"]
            ELSE IF c = "," THEN [SaveField(r) EXCEPT !.state = "START_FIELD"]
            ELSE [AddChar(r, c) EXCEPT !.state = "IN_FIELD"]
       [] start = "IN_FIELD" ->
            IF c \in {"\n", "\r"} THEN [SaveField(r) EXCEPT !.state = "EAT_CRNL"]
            ELSE IF c = "," THEN [SaveField(r) EXCEPT !.state = "START_FIELD"]
            ELSE AddChar(r, c)
       [] start = "IN_QUOTED_FIELD" ->
            IF c = "\"" THEN [r EXCEPT !.state = "QUOTE_IN_QUOTED_FIELD"]
            ELSE AddChar(r, c)
       [] start = "QUOTE_IN_QUOTED_FIELD" ->
            IF c = "\"" THEN [AddChar(r, c) EXCEPT !.state = "IN_QUOTED_FIELD"]
            ELSE IF c = "," THEN [SaveField(r) EXCEPT !.state = "START_FIELD"]
            ELSE IF c \in {"\n", "\r"} THEN [SaveField(r) EXCEPT !.state = "EAT_CRNL"]
            ELSE [AddChar(r, c) EXCEPT !.state = "IN_FIELD"]
       [] start = "EAT_CRNL" ->
            IF c \in {"\n", "\r"} THEN r ELSE [r EXCEPT !.error = TRUE]

EmitRecord(r) ==
  [r EXCEPT !.rows = Append(@, r.fields), !.fields = <<>>, !.state = "START_RECORD"]

\* parse_process_char for the end of a line, and the return of the record
EndOfLine(r) ==
  CASE r.state = "START_RECORD" -> EmitRecord(r)
    [] r.state \in {"START_FIELD", "IN_FIELD", "QUOTE_IN_QUOTED_FIELD"} ->
         EmitRecord(SaveField(r))
    [] r.state = "IN_QUOTED_FIELD" -> r
    [] r.state = "EAT_CRNL" -> EmitRecord(r)

\* the line iterator is exhausted
EndOfInput(r) ==
  IF ~r.error /\ r.state = "IN_QUOTED_FIELD" THEN EmitRecord(SaveField(r)) ELSE r

\* the parser after the character text[i]
ReadChar(text, i, r) ==
  IF r.error THEN r
  ELSE LET after == ProcessChar(r, text[i])
       IN IF after.error THEN after
          ELSE IF text[i] = "\n" \/ i = Len(text) THEN EndOfLine(after)
          ELSE after

RECURSIVE ReadRange(_, _, _, _)
\* the parser after the characters text[lo..hi], in order
ReadRange(text, lo, hi, r) ==
  IF lo > hi THEN r
  ELSE IF lo = hi THEN ReadChar(text, lo, r)
  ELSE LET mid == (lo + hi) \div 2
           left == ReadRange(text, lo, mid, r)
       IN IF left.error THEN left ELSE ReadRange(text, mid + 1, hi, left)

CsvError == <<<<<<"c", "s", "v", ".", "E", "r", "r", "o", "r">>>>>>

\* list(csv.reader(io.StringIO(text)))
csv_reader(text) ==
  LET r == EndOfInput(ReadRange(text, 1, Len(text), ReaderStart))
  IN IF r.error THEN CsvError ELSE r.rows

(***************************************************************************)
(* GitHubProjectExporter.export_to_csv                                     *)
(***************************************************************************)
preferred_field_order ==
  <<"Product",
    "Dev link",
    "High profile",
    "Release type",
    "Product type",
    "Anticipated release date",
    "Client organization/branch",
    "Program contacts",
    "Assignee (developer)">>

\* the text of each column name
ColumnText ==
  ("Product" :>
         <<"P", "r", "o", "d", "u", "c", "t">>)
    @@ ("Dev link" :>
         <<"D", "e", "v", " ", "l", "i", "n", "k">>)
    @@ ("High profile" :>
         <<"H", "i", "g", "h", " ", "p", "r", "o", "f", "i", "l", "e">>)
    @@ ("Release type" :>
         <<"R", "e", "l", "e", "a", "s", "e", " ", "t", "y", "p", "e">>)
    @@ ("Product type" :>
         <<"P", "r", "o", "d", "u", "c", "t", " ", "t", "y", "p", "e">>)
    @@ ("Anticipated release date" :>
         <<"A", "n", "t", "i", "c", "i", "p", "a", "t", "e", "d", " ", "r", "e", "l", "e", "a", "s", "e", " ", "d", "a", "t", "e">>)
    @@ ("Client organization/branch" :>
         <<"C", "l", "i", "e", "n", "t", " ", "o", "r", "g", "a", "n", "i", "z", "a", "t", "i", "o", "n", "/", "b", "r", "a", "n", "c", "h">>)
    @@ ("Program contacts" :>
         <<"P", "r", "o", "g", "r", "a", "m", " ", "c", "o", "n", "t", "a", "c", "t", "s">>)
    @@ ("Assignee (developer)" :>
         <<"A", "s", "s", "i", "g", "n", "e", "e", " ", "(", "d", "e", "v", "e", "l", "o", "p", "e", "r", ")">>)

\* the candidates, had the last but one column been looked up by its own name
possible_fields_by_column ==
  [name \in {preferred_field_order[i] : i \in 1..Len(preferred_field_order)} |->
     IF name = "Dev link" THEN <<"Dev link", "Dev links">>
     ELSE IF name = "Assignee (developer)" THEN <<"assignees">>
     ELSE <<name>>]

possible_fields ==
  ("Product" :> <<"Product">>)
    @@ ("Dev link" :> <<"Dev link", "Dev links">>)
    @@ ("High profile" :> <<"High profile">>)
    @@ ("Release type" :> <<"Release type">>)
    @@ ("Product type" :> <<"Product type">>)
    @@ ("Anticipated release date" :> <<"Anticipated release date">>)
    @@ ("Client organization/branch" :> <<"Client organization/branch">>)
    @@ ("Program contacts" :> <<"Client contacts">>)
    @@ ("Assignee (developer)" :> <<"assignees">>)

RECURSIVE FindValue(_, _)
\* the loop over field_candidates: the first candidate found, direct
\* attributes of the item before its custom fields; None when none is found
FindValue(item, field_candidates) ==
  IF field_candidates = <<>> THEN PyNone
  ELSE LET candidate == Head(field_candidates)
       IN IF candidate \in DOMAIN item THEN item[candidate]
          ELSE IF HasCustomField(item, candidate)
            THEN item["custom_fields"][candidate]
          ELSE FindValue(item, Tail(field_candidates))

CellText(value) ==
  IF value.t = "none" THEN <<>>
  ELSE IF value.t = "list"
    THEN Join(<<",", " ">>, [i \in 1..Len(value.v) |-> PyStr(value.v[i])])
  ELSE PyStr(value)

\* the row dict of one item, in the order of fieldnames
RowOf(item) ==
  [i \in 1..Len(preferred_field_order) |->
     CellText(FindValue(item, possible_fields[preferred_field_order[i]]))]

RECURSIVE WriteRows(_)
WriteRows(items) ==
  IF items = <<>> THEN <<>>
  ELSE writerow(RowOf(Head(items))) \o WriteRows(Tail(items))

HeaderRow == [i \in 1..Len(preferred_field_order) |-> ColumnText[preferred_field_order[i]]]

\* export_to_csv, had it written the header for an empty list too
export_to_csv_always_header(items) == writerow(HeaderRow) \o WriteRows(items)

export_to_csv(items) ==
  IF items = <<>> THEN <<>>
  ELSE writerow(HeaderRow) \o WriteRows(items)

(***************************************************************************)
(* The item source: the JSON the GraphQL query of get_project_items        *)
(* returns for an item                                                     *)
(***************************************************************************)
Absent == [t |-> "absent"]

TextValue(field_name, text) ==
  ("__typename" :> "ProjectV2ItemFieldTextValue")
    @@ [text |-> text, field |-> [name |-> field_name]]

NumberValue(field_name, number) ==
  ("__typename" :> "ProjectV2ItemFieldNumberValue")
    @@ [number |-> number, field |-> [name |-> field_name]]

DateValue(field_name, date) ==
  ("__typename" :> "ProjectV2ItemFieldDateValue")
    @@ [date |-> date, field |-> [name |-> field_name]]

SingleSelectValue(field_name, option) ==
  ("__typename" :> "ProjectV2ItemFieldSingleSelectValue")
    @@ [name |-> option, field |-> [name |-> field_name]]

\* an iteration value: its field is no ProjectV2Field, so the query gives {}
IterationValue(title) ==
  ("__typename" :> "ProjectV2ItemFieldIterationValue")
    @@ [title |-> title, field |-> EmptyDict]

\* a value of a type the query has no fragment for
OtherValue == ("__typename" :> "ProjectV2ItemFieldRepositoryValue")

\* the node of a field by the type of its value; none for Absent
FieldNode(field_name, value) ==
  IF value = Absent THEN <<>>
  ELSE IF value.t = "num" THEN <<NumberValue(field_name, value)>>
  ELSE <<TextValue(field_name, value)>>

StatusNode(option) ==
  IF option = Absent THEN <<>> ELSE <<SingleSelectValue("Status", option)>>

DateNode(date) ==
  IF date = Absent THEN <<>> ELSE <<DateValue("Anticipated release date", date)>>

ParentRef ==
  [id |-> Str(<<"I", "_", "p", "1">>), title |-> Str(<<"E", "p", "i", "c">>), number |-> Num(1)]

Logins(logins) == [nodes |-> [i \in 1..Len(logins) |-> [login |-> Str(logins[i])]]]

IssueContent(parent, logins, state) ==
  [id |-> Str(<<"I", "_", "1">>), title |-> Str(<<"T", "a", "s", "k">>), number |-> Num(7),
   state |-> Str(state), body |-> EmptyStr, url |-> Str(<<"u">>),
   createdAt |-> Str(<<"2", "0", "2", "6", "-", "0", "1", "-", "0", "1", "T", "0", "0", ":", "0", "0", ":", "0", "0", "Z">>),
   updatedAt |-> Str(<<"2", "0", "2", "6", "-", "0", "1", "-", "0", "2", "T", "0", "0", ":", "0", "0", ":", "0", "0", "Z">>),
   closedAt |-> PyNone, parent |-> parent,
   labels |-> [nodes |-> <<[name |-> Str(<<"b", "u", "g">>)]>>],
   assignees |-> Logins(logins), milestone |-> PyNone,
   repository |-> [name |-> Str(<<"r", "e", "p", "o">>)]]

\* a pull request: the query asks no parent of it, and it has mergedAt
PullRequestContent(logins, state) ==
  [id |-> Str(<<"P", "R", "_", "1">>), title |-> Str(<<"P", "a", "t", "c", "h">>), number |-> Num(8),
   state |-> Str(state), body |-> EmptyStr, url |-> Str(<<"u">>),
   createdAt |-> Str(<<"2", "0", "2", "6", "-", "0", "1", "-", "0", "1", "T", "0", "0", ":", "0", "0", ":", "0", "0", "Z">>),
   updatedAt |-> Str(<<"2", "0", "2", "6", "-", "0", "1", "-", "0", "2", "T", "0", "0", ":", "0", "0", ":", "0", "0", "Z">>),
   closedAt |-> PyNone, mergedAt |-> PyNone,
   labels |-> [nodes |-> <<>>],
   assignees |-> Logins(logins), milestone |-> [title |-> Str(<<"M", "1">>)],
   repository |-> [name |-> Str(<<"r", "e", "p", "o">>)]]

RawItem(id, content, nodes) ==
  [id |-> Str(id), content |-> content, fieldValues |-> [nodes |-> nodes]]

alice == <<"a", "l", "i", "c", "e">>

bob == <<"b", "o", "b">>

AssigneeChoices ==
  {<<>>, <<alice>>, <<<<"H", "a", "l", "l", "i", "G", "a", "t", "e", "r">>>>,
   <<alice, <<"S", "M", "A", "N", "N", "A", "N", "9">>>>,
   <<<<"h", "a", "l", "l", "i", "g", "a", "t", "e", "r", "x">>, bob>>}

StateChoices == {<<"O", "P", "E", "N">>, <<"C", "L", "O", "S", "E", "D">>}

\* Status is a single-select field and Anticipated release date a date field:
\* the source gives their values as text or null, never as a number
StatusChoices ==
  {Absent, PyNone,
   Str(<<>>),
   Str(<<"I", "n", " ", "D", "e", "v", "e", "l", "o", "p", "m", "e", "n", "t">>),
   Str(<<"i", "n", " ", "d", "e", "v", "e", "l", "o", "p", "m", "e", "n", "t">>),
   Str(<<"C", "o", "m", "p", "l", "e", "t", "e", "d">>),
   Str(<<"B", "l", "o", "c", "k", "e", "d">>),
   Str(<<"O", "p", "e", "n">>)}

DateChoices ==
  {Absent, PyNone,
   Str(<<"2", "0", "2", "6", "-", "1", "0", "-", "1", "8">>),
   Str(<<"2", "0", "2", "6", "-", "1", "0", "-", "1", "9">>),
   Str(<<"2", "0", "2", "6", "-", "1", "0", "-", "2", "0">>),
   Str(<<"2", "0", "2", "6", "-", "1", "1", "-", "0", "2">>),
   Str(<<"2", "0", "2", "7", "-", "0", "1", "-", "0", "1">>),
   Str(<<"2", "0", "2", "7", "-", "0", "1", "-", "0", "2">>),
   Str(<<"2", "0", "2", "7", "-", "0", "1", "-", "0", "3">>),
   Str(<<"1", "9", "9", "9", "-", "1", "2", "-", "3", "1">>),
   Str(<<"2", "0", "9", "9", "-", "1", "-", "1">>),
   Str(<<"2", "0", "2", "7", "-", "0", "2", "-", "2", "9">>),
   Str(<<"s", "o", "o", "n">>),
   Str(<<>>)}

Widget == Str(<<"W", "i", "d", "g", "e", "t">>)

\* items that differ in what the gates of filter_items read
GateItems ==
  {RawItem(<<"g">>, IssueContent(parent, logins, state),
           StatusNode(status) \o <<OtherValue>> \o DateNode(date)
             \o FieldNode("Product", Widget)) :
     parent \in {PyNone, ParentRef}, logins \in AssigneeChoices,
     state \in StateChoices, status \in StatusChoices, date \in DateChoices}

\* items without an issue: no content, a draft issue ({}), a pull request
OtherItems ==
  {RawItem(<<"o">>, content, StatusNode(status) \o DateNode(date)) :
     content \in {PyNone, EmptyDict,
                  PullRequestContent(<<alice>>, <<"M", "E", "R", "G", "E", "D">>),
                  PullRequestContent(<<>>, <<"O", "P", "E", "N">>)},
     status \in {Absent, Str(<<"C", "o", "m", "p", "l", "e", "t", "e", "d">>)},
     date \in {Absent, Str(<<"2", "0", "2", "6", "-", "1", "1", "-", "0", "2">>)}}

ProductChoices ==
  {Absent, PyNone, Widget, Num(42), Num(-5), EmptyStr,
   Str(<<"a", ",", "\"", "b", "\"", "\n", "c">>)}

\* eligible items that differ in what export_to_csv reads
ColumnItems ==
  {RawItem(<<"c">>, IssueContent(ParentRef, logins, <<"O", "P", "E", "N">>),
           FieldNode("Product", product) \o FieldNode("Dev links", dev_links)
             \o FieldNode("Dev link", dev_link)
             \o FieldNode("Client contacts", client)
             \o FieldNode("Program contacts", program)
             \o FieldNode("assignees", field_assignees)
             \o <<IterationValue(Str(<<"S", "p", "r", "i", "n", "t", " ", "1">>))>>) :
     logins \in {<<>>, <<alice>>, <<alice, bob>>},
     product \in ProductChoices,
     dev_links \in {Absent, Str(<<"L", "2">>)},
     dev_link \in {Absent, PyNone, Str(<<"L", "1">>)},
     client \in {Absent, Str(<<"c", "c">>)},
     program \in {Absent, Str(<<"p", "c">>)},
     field_assignees \in {Absent, Str(<<"z", "e", "d">>)}}

RECURSIVE SeqsUpTo(_, _)
\* the sequences over S of length 1..n
SeqsUpTo(S, n) ==
  IF n = 0 THEN {}
  ELSE LET shorter == SeqsUpTo(S, n - 1)
       IN {<<x>> : x \in S} \cup {Append(q, x) : q \in shorter, x \in S}

\* the field values an item may carry: one node of each type of the query, a
\* null text, a field that is itself named Unknown Field, and two names that
\* more than one node may bear
FieldValueChoices ==
  {TextValue("Product", Widget),
   TextValue("Product", PyNone),
   NumberValue("Product", Num(42)),
   DateValue("Dev link", Str(<<"2", "0", "2", "6", "-", "1", "1", "-", "0", "2">>)),
   SingleSelectValue("Dev link", Str(<<"L", "1">>)),
   TextValue("Unknown Field", Str(<<"x">>)),
   IterationValue(Str(<<"S", "p", "r", "i", "n", "t", " ", "1">>)),
   OtherValue}

MaxFields == 3

\* eligible items that differ in their fieldValues nodes
FieldItems ==
  {RawItem(<<"f">>, IssueContent(ParentRef, <<alice>>, <<"O", "P", "E", "N">>), nodes) :
     nodes \in {<<>>} \cup SeqsUpTo(FieldValueChoices, MaxFields)}

\* the items the project of a run may hold, by name
ProjectItems ==
  [A |-> RawItem(<<"A">>, IssueContent(ParentRef, <<alice>>, <<"O", "P", "E", "N">>),
                 StatusNode(Str(<<"C", "o", "m", "p", "l", "e", "t", "e", "d">>)) \o FieldNode("Product", Widget)),
   B |-> RawItem(<<"B">>, IssueContent(PyNone, <<bob>>, <<"O", "P", "E", "N">>),
                 StatusNode(Str(<<"I", "n", " ", "D", "e", "v", "e", "l", "o", "p", "m", "e", "n", "t">>))
                   \o DateNode(Str(<<"2", "0", "2", "6", "-", "1", "1", "-", "0", "2">>))
                   \o FieldNode("Product", Str(<<"G", "a", "d", "g", "e", "t">>))
                   \o FieldNode("Dev link", Str(<<"L", "1">>))
                   \o FieldNode("Client contacts", Str(<<"c", "c">>))),
   C |-> RawItem(<<"C">>, IssueContent(ParentRef, <<bob, alice>>, <<"C", "L", "O", "S", "E", "D">>),
                 DateNode(Str(<<"2", "0", "2", "7", "-", "0", "1", "-", "0", "2">>))
                   \o FieldNode("Product", Str(<<"a", ",", "\"", "b", "\"", "\n", "c">>))
                   \o FieldNode("Dev links", Str(<<"L", "2">>))
                   \o FieldNode("High profile", Num(1)))]

\* what a page of the project may hold
PageChoices == {<<"A">>, <<"B", "C">>, <<"B">>, <<>>}

MaxPages == 2

MaxRuns == 2

MaxItems == 3

Projects == SeqsUpTo(PageChoices, MaxPages)

Today == Ordinal(2026, 11, 2)

(***************************************************************************)
(* The spreadsheet (Sheets API v4): a tab is the function from the         *)
(* <<row, column>> of each of its non-empty cells to the text of the cell  *)
(***************************************************************************)
EmptyTab == <<>>

\* tab_name = f"Export_{timestamp}", timestamp the date of the run
TabName(date) == <<"Export_", date>>

\* the last column of the range A:Z
ClearColumns == 26

\* spreadsheets().values().clear(range=f"{tab_name}!A:Z")
ClearCells(cells) ==
  [p \in {q \in DOMAIN cells : q[2] > ClearColumns} |-> cells[p]]

\* spreadsheets().values().update(range=f"{tab_name}!A1", valueInputOption='RAW'):
\* a cell the grid covers takes its text, the empty text emptying the cell
UpdateCells(cells, grid) ==
  LET covered == UNION {{<<r, c>> : c \in 1..Len(grid[r])} : r \in 1..Len(grid)}
      kept == (DOMAIN cells \ covered) \cup {p \in covered : grid[p[1]][p[2]] # <<>>}
  IN [p \in kept |-> IF p \in covered THEN grid[p[1]][p[2]] ELSE cells[p]]

\* what the tab of the export may hold before the first run
StaleTab ==
  (<<1, 1>> :> <<"o", "l", "d">>) @@ (<<2, 1>> :> <<"o", "l", "d">>)
    @@ (<<5, 2>> :> <<"o", "l", "d">>) @@ (<<1, 27>> :> <<"n", "o", "t", "e">>)

OtherTab == (<<1, 1>> :> <<"k", "e", "e", "p">>)

Spreadsheets ==
  {(<<"Sheet1">> :> OtherTab),
   (<<"Sheet1">> :> OtherTab) @@ (TabName(Today) :> StaleTab),
   (<<"Sheet1">> :> OtherTab) @@ (TabName(Today) :> EmptyTab)}

(***************************************************************************)
(* main(): one action per step; a request to GitHub or to the Sheets API   *)
(* either succeeds or fails, as the network and the services decide        *)
(***************************************************************************)
Idle ==
  /\ cursor = 0
  /\ all_items = <<>>
  /\ fetch_error = FALSE
  /\ requested = <<>>
  /\ detailed_items = <<>>
  /\ filtered_items = <<>>
  /\ csv_data = <<>>
  /\ values = <<>>
  /\ sink = <<>>
  /\ report = "running"

Init ==
  /\ pc = "main"
  /\ run = 1
  /\ env = [create_new_tab |-> TRUE]
  /\ today = Today
  /\ pages \in Projects
  /\ sheets \in Spreadsheets
  /\ prev = [report |-> "none", sheets |-> sheets]
  /\ Idle

\* main returns, having printed `what`
Return(what) ==
  /\ pc' = "done"
  /\ report' = what

\* lines 569-579: the environment; a required variable may be missing
ReadEnvironment ==
  /\ pc = "main"
  /\ \E complete \in BOOLEAN, create \in BOOLEAN :
       /\ env' = [create_new_tab |-> create]
       /\ IF complete
            THEN pc' = "get_project_id" /\ UNCHANGED report
            ELSE Return("missing environment")
  /\ UNCHANGED <<run, today, pages, cursor, all_items, fetch_error, detailed_items,
                 filtered_items, csv_data, values, sheets, sink, prev, requested>>

\* get_project_id: None on a failed request, an error payload or no such project
GetProjectId ==
  /\ pc = "get_project_id"
  /\ \E found \in BOOLEAN :
       IF found
         THEN pc' = "get_view_configuration" /\ UNCHANGED report
         ELSE Return("no project")
  /\ UNCHANGED <<run, env, today, pages, cursor, all_items, fetch_error,
                 detailed_items, filtered_items, csv_data, values, sheets, sink, prev, requested>>

\* get_view_configuration: its result is only printed
GetViewConfiguration ==
  /\ pc = "get_view_configuration"
  /\ pc' = "get_project_items"
  /\ UNCHANGED <<run, env, today, pages, cursor, all_items, fetch_error,
                 detailed_items, filtered_items, csv_data, values, sheets, sink,
                 report, prev, requested>>

RawItems(page) == [i \in 1..Len(page) |-> ProjectItems[page[i]]]

\* the end of get_project_items, had main not tested its result
EndOfItemsUntested(items) == pc' = "get_item_details" /\ UNCHANGED report

\* the end of get_project_items and main's test of its result
EndOfItems(items) ==
  IF items = <<>> THEN Return("no items")
  ELSE pc' = "get_item_details" /\ UNCHANGED report

\* the loop, had it ended after the first page whatever its hasNextPage
RequestPageOnce ==
  /\ pc = "get_project_items"
  /\ requested' = Append(requested, cursor)
  /\ \E ok \in BOOLEAN :
       IF ok
         THEN LET items == all_items \o RawItems(pages[cursor + 1])
              IN /\ all_items' = items
                 /\ UNCHANGED <<fetch_error, cursor>>
                 /\ EndOfItems(items)
         ELSE /\ fetch_error' = TRUE
              /\ UNCHANGED <<cursor, all_items>>
              /\ EndOfItems(all_items)
  /\ UNCHANGED <<run, env, today, pages, detailed_items, filtered_items, csv_data,
                 values, sheets, sink, prev>>

\* one turn of the loop of get_project_items: the request of the page after
\* `cursor` (0: no cursor, k: the endCursor of page k); the loop ends at the
\* last page and at a failed request
RequestPage ==
  /\ pc = "get_project_items"
  /\ requested' = Append(requested, cursor)
  /\ \E ok \in BOOLEAN :
       IF ok
         THEN LET items == all_items \o RawItems(pages[cursor + 1])
                  hasNextPage == cursor + 1 < Len(pages)
              IN /\ all_items' = items
                 /\ UNCHANGED fetch_error
                 /\ IF hasNextPage
                      THEN cursor' = cursor + 1 /\ UNCHANGED <<pc, report>>
                      ELSE UNCHANGED cursor /\ EndOfItems(items)
         ELSE /\ fetch_error' = TRUE
              /\ UNCHANGED <<cursor, all_items>>
              /\ EndOfItems(all_items)
  /\ UNCHANGED <<run, env, today, pages, detailed_items, filtered_items, csv_data,
                 values, sheets, sink, prev>>

\* lines 616-627
GetItemDetails ==
  /\ pc = "get_item_details"
  /\ detailed_items' = [i \in 1..Len(all_items) |-> get_item_details(all_items[i])]
  /\ pc' = "filter_items"
  /\ UNCHANGED <<run, env, today, pages, cursor, all_items, fetch_error,
                 filtered_items, csv_data, values, sheets, sink, report, prev, requested>>

\* line 637
FilterItems ==
  /\ pc = "filter_items"
  /\ filtered_items' = filter_items(detailed_items, today)
  /\ pc' = "export_to_csv"
  /\ UNCHANGED <<run, env, today, pages, cursor, all_items, fetch_error,
                 detailed_items, csv_data, values, sheets, sink, report, prev, requested>>

\* line 642, and the entry of export_csv_to_sheet (line 533)
ExportToCsv ==
  /\ pc = "export_to_csv"
  /\ csv_data' = export_to_csv(filtered_items)
  /\ pc' = IF env.create_new_tab THEN "create_new_tab" ELSE "csv_reader"
  /\ UNCHANGED <<run, env, today, pages, cursor, all_items, fetch_error,
                 detailed_items, filtered_items, values, sheets, sink, report, prev, requested>>

Called(op, ok) == sink' = Append(sink, [op |-> op, ok |-> ok])

\* create_new_tab: spreadsheets().get, then addSheet when the tab is absent;
\* an HttpError of either makes export_csv_to_sheet return False
create_new_tab ==
  /\ pc = "create_new_tab"
  /\ \E got \in BOOLEAN, added \in BOOLEAN :
       IF ~got
         THEN /\ Called("get", FALSE)
              /\ Return("failed")
              /\ UNCHANGED sheets
         ELSE IF TabName(today) \in DOMAIN sheets
           THEN /\ Called("get", TRUE)
                /\ pc' = "csv_reader"
                /\ UNCHANGED <<sheets, report>>
         ELSE IF added
           THEN /\ sink' = sink \o <<[op |-> "get", ok |-> TRUE],
                                      [op |-> "addSheet", ok |-> TRUE]>>
                /\ sheets' = (TabName(today) :> EmptyTab) @@ sheets
                /\ pc' = "csv_reader"
                /\ UNCHANGED report
         ELSE /\ sink' = sink \o <<[op |-> "get", ok |-> TRUE],
                                    [op |-> "addSheet", ok |-> FALSE]>>
              /\ Return("failed")
              /\ UNCHANGED sheets
  /\ UNCHANGED <<run, env, today, pages, cursor, all_items, fetch_error,
                 detailed_items, filtered_items, csv_data, values, prev, requested>>

\* lines 538-539
ParseCsv ==
  /\ pc = "csv_reader"
  /\ values' = csv_reader(csv_data)
  /\ pc' = "clear"
  /\ UNCHANGED <<run, env, today, pages, cursor, all_items, fetch_error,
                 detailed_items, filtered_items, csv_data, sheets, sink, report, prev, requested>>

\* lines 541-550: values().clear; its HttpError is caught and only printed.
\* The call fails when the tab does not exist, and may fail otherwise
ClearTab ==
  /\ pc = "clear"
  /\ \E ok \in BOOLEAN :
       IF ok /\ TabName(today) \in DOMAIN sheets
         THEN /\ sheets' = [sheets EXCEPT ![TabName(today)] = ClearCells(@)]
              /\ Called("clear", TRUE)
         ELSE /\ UNCHANGED sheets
              /\ Called("clear", FALSE)
  /\ pc' = "update"
  /\ UNCHANGED <<run, env, today, pages, cursor, all_items, fetch_error,
                 detailed_items, filtered_items, csv_data, values, report, prev, requested>>

\* lines 552-565 and main's lines 650-655: values().update and the report
UpdateTab ==
  /\ pc = "update"
  /\ \E ok \in BOOLEAN :
       IF ok /\ TabName(today) \in DOMAIN sheets
         THEN /\ sheets' = [sheets EXCEPT ![TabName(today)] = UpdateCells(@, values)]
              /\ Called("update", TRUE)
              /\ Return("success")
         ELSE /\ UNCHANGED sheets
              /\ Called("update", FALSE)
              /\ Return("failed")
  /\ UNCHANGED <<run, env, today, pages, cursor, all_items, fetch_error,
                 detailed_items, filtered_items, csv_data, values, prev, requested>>

\* the script is run again, on the same date and the same project
NextRun ==
  /\ pc = "done"
  /\ run < MaxRuns
  /\ run' = run + 1
  /\ prev' = [report |-> report, sheets |-> sheets]
  /\ pc' = "main"
  /\ env' = [create_new_tab |-> TRUE]
  /\ cursor' = 0
  /\ all_items' = <<>>
  /\ fetch_error' = FALSE
  /\ requested' = <<>>
  /\ detailed_items' = <<>>
  /\ filtered_items' = <<>>
  /\ csv_data' = <<>>
  /\ values' = <<>>
  /\ sink' = <<>>
  /\ report' = "running"
  /\ UNCHANGED <<today, pages, sheets>>

\* a step of main
MainStep ==
  \/ ReadEnvironment
  \/ GetProjectId
  \/ GetViewConfiguration
  \/ RequestPage
  \/ GetItemDetails
  \/ FilterItems
  \/ ExportToCsv
  \/ create_new_tab
  \/ ParseCsv
  \/ ClearTab
  \/ UpdateTab

Next ==
  \/ MainStep
  \/ NextRun

Spec == Init /\ [][Next]_vars

\* one run of main; it runs one thread, so a turn of the loop of
\* get_project_items that can be taken is taken
SpecRun == Init /\ [][MainStep]_vars /\ WF_vars(RequestPage)

(***************************************************************************)
(* The steps of main between the fetch and the sink, from every item of    *)
(* the item source taken alone and from short lists of items               *)
(***************************************************************************)
Todays == {Today, Today + 1}

ItemLists ==
  {<<item>> : item \in GateItems \cup OtherItems \cup ColumnItems \cup FieldItems}
    \cup {RawItems(names) : names \in SeqsUpTo(DOMAIN ProjectItems, MaxItems)}

InitItems ==
  /\ pc = "get_item_details"
  /\ run = 1
  /\ env = [create_new_tab |-> FALSE]
  /\ today \in Todays
  /\ pages = <<>>
  /\ sheets = (<<"Sheet1">> :> OtherTab)
  /\ prev = [report |-> "none", sheets |-> sheets]
  /\ cursor = 0
  /\ all_items \in ItemLists
  /\ fetch_error = FALSE
  /\ requested = <<>>
  /\ detailed_items = <<>>
  /\ filtered_items = <<>>
  /\ csv_data = <<>>
  /\ values = <<>>
  /\ sink = <<>>
  /\ report = "running"

NextItems ==
  \/ GetItemDetails
  \/ FilterItems
  \/ ExportToCsv
  \/ ParseCsv

SpecItems == InitItems /\ [][NextItems]_vars

(***************************************************************************)
(* Properties                                                              *)
(***************************************************************************)
InSeq(x, seq) == \E j \in 1..Len(seq) : seq[j] = x

\* filter_items has returned in this run
AfterFilter == pc \in {"export_to_csv", "create_new_tab", "csv_reader", "clear", "update"}

\* export_csv_to_sheet has parsed the grid it hands to the sink
AfterParse == pc \in {"clear", "update"}

NoParentInSource(raw) ==
  \/ ~DictTruthy(raw["content"])
  \/ "parent" \notin DOMAIN raw["content"]
  \/ raw["content"]["parent"] = PyNone

NoParent(item) ==
  \/ "parent_issue_id" \notin DOMAIN item
  \/ item["parent_issue_id"] \in {EmptyStr, PyNone}
  \/ item["content_type"] = "Unknown"

\* C1: an item without a parent issue (no parent in the source, parent_issue_id
\* absent or empty, or content type Unknown) is never in the result of
\* filter_items, whatever its assignees, status, state and release date
C1_ParentlessExcluded ==
  AfterFilter =>
    \A i \in 1..Len(detailed_items) :
      (NoParentInSource(all_items[i]) \/ NoParent(detailed_items[i]))
        => ~InSeq(detailed_items[i], filtered_items)

\* an issue without parent that every other gate lets through was filtered out
C1_Witness ==
  /\ AfterFilter
  /\ \E i \in 1..Len(detailed_items) :
       /\ detailed_items[i]["content_type"] = "Issue"
       /\ NoParent(detailed_items[i])
       /\ AssigneeGate(detailed_items[i])
       /\ StatusGate(detailed_items[i])
       /\ date_condition_met(detailed_items[i], today)
       /\ ~InSeq(detailed_items[i], filtered_items)

\* a and b are the same text up to the case of their letters
SameIgnoringCase(a, b) ==
  /\ Len(a) = Len(b)
  /\ \A i \in 1..Len(a) :
       \/ a[i] = b[i]
       \/ \E k \in 1..26 : {a[i], b[i]} = {UpperLetters[k], LowerLetters[k]}

ExcludedLogins == {<<"h", "a", "l", "l", "i", "g", "a", "t", "e", "r">>, <<"s", "m", "a", "n", "n", "a", "n", "9">>}

AssigneesOf(item) == IF "assignees" \in DOMAIN item THEN item["assignees"].v ELSE <<>>

HasExcludedAssignee(item) ==
  \E i \in 1..Len(AssigneesOf(item)) :
    \E login \in ExcludedLogins : SameIgnoringCase(AssigneesOf(item)[i].v, login)

\* C2: an item one of whose assignees is halligater or smannan9 in any letter
\* case is not in the result of filter_items; an item without assignees that
\* passes the other gates is in it
C2_ExcludedAssignees ==
  AfterFilter =>
    \A i \in 1..Len(detailed_items) :
      /\ HasExcludedAssignee(detailed_items[i])
           => ~InSeq(detailed_items[i], filtered_items)
      /\ (/\ AssigneesOf(detailed_items[i]) = <<>>
          /\ ParentGate(detailed_items[i])
          /\ StatusGate(detailed_items[i])
          /\ date_condition_met(detailed_items[i], today))
           => InSeq(detailed_items[i], filtered_items)

\* a sub-issue that passes every other gate and has an excluded assignee, written
\* in another letter case than the exclusion set, next to another assignee
C2_Witness ==
  /\ AfterFilter
  /\ \E i \in 1..Len(detailed_items) :
       /\ ParentGate(detailed_items[i])
       /\ StatusGate(detailed_items[i])
       /\ Len(AssigneesOf(detailed_items[i])) = 2
       /\ HasExcludedAssignee(detailed_items[i])
       /\ \A k \in 1..2 : AssigneesOf(detailed_items[i])[k].v \notin ExcludedLogins
       /\ ~InSeq(detailed_items[i], filtered_items)

AllowedStatusNames ==
  {<<"i", "n", " ", "d", "e", "v", "e", "l", "o", "p", "m", "e", "n", "t">>,
   <<"c", "o", "m", "p", "l", "e", "t", "e", "d">>,
   <<"o", "p", "e", "n">>,
   <<"c", "l", "o", "s", "e", "d">>}

\* the status the gate reads: customFields['Status'] when the key is present
ClaimedStatus(item) ==
  IF "Status" \in DOMAIN item["custom_fields"]
    THEN item["custom_fields"]["Status"]
    ELSE item["state"]

ClaimedStatusPasses(item) ==
  \/ ClaimedStatus(item) \in {EmptyStr, PyNone}
  \/ /\ ClaimedStatus(item).t = "str"
     /\ \E name \in AllowedStatusNames : SameIgnoringCase(ClaimedStatus(item).v, name)

\* C3: among the items that pass the parent and assignee gates, those in the
\* result of filter_items have a status (Status when present, else state) that
\* is empty or one of the four names in any letter case, and every item with
\* such a status whose release date passes is in the result
C3_StatusGate ==
  AfterFilter =>
    \A i \in 1..Len(detailed_items) :
      (ParentGate(detailed_items[i]) /\ AssigneeGate(detailed_items[i])) =>
        /\ InSeq(detailed_items[i], filtered_items)
             => ClaimedStatusPasses(detailed_items[i])
        /\ (ClaimedStatusPasses(detailed_items[i])
              /\ date_condition_met(detailed_items[i], today))
             => InSeq(detailed_items[i], filtered_items)

\* Status 'Blocked' on an open sub-issue: dropped although its state is OPEN
C3_Witness ==
  /\ AfterFilter
  /\ \E i \in 1..Len(detailed_items) :
       /\ ParentGate(detailed_items[i])
       /\ AssigneeGate(detailed_items[i])
       /\ HasCustomField(detailed_items[i], "Status")
       /\ detailed_items[i]["custom_fields"]["Status"] = Str(<<"B", "l", "o", "c", "k", "e", "d">>)
       /\ detailed_items[i]["state"] = Str(<<"O", "P", "E", "N">>)
       /\ ~InSeq(detailed_items[i], filtered_items)

PassesFirstThreeGates(item) == ParentGate(item) /\ AssigneeGate(item) /\ StatusGate(item)

\* C4: the release-date gate lets every item through, whatever the offset of
\* its date from today: the result of filter_items is exactly the items that
\* pass the parent, assignee and status gates, in their order
C4_DateGateOpen ==
  AfterFilter =>
    /\ filtered_items = SelectSeq(detailed_items, PassesFirstThreeGates)
    /\ \A i \in 1..Len(detailed_items) : date_condition_met(detailed_items[i], today)

\* a sub-issue whose release date is today + 61 days is in the result
C4_Witness ==
  /\ AfterFilter
  /\ \E i \in 1..Len(detailed_items) :
       /\ anticipated_release_date(detailed_items[i]) = today + RetainDays + 1
       /\ InSeq(detailed_items[i], filtered_items)

ClaimedCandidates ==
  <<<<"Product">>, <<"Dev link", "Dev links">>, <<"High profile">>,
    <<"Release type">>, <<"Product type">>, <<"Anticipated release date">>,
    <<"Client organization/branch">>, <<"Client contacts">>, <<"assignees">>>>

Found(item, name) == name \in DOMAIN item \/ name \in DOMAIN item["custom_fields"]

\* the value of the first candidate found, a direct attribute before a custom field
ClaimedValue(item, names) ==
  IF \A k \in 1..Len(names) : ~Found(item, names[k]) THEN PyNone
  ELSE LET first == CHOOSE k \in 1..Len(names) :
                      Found(item, names[k]) /\ \A j \in 1..(k - 1) : ~Found(item, names[j])
       IN IF names[first] \in DOMAIN item THEN item[names[first]]
          ELSE item["custom_fields"][names[first]]

ClaimedText(value) ==
  CASE value.t = "none" -> <<>>
    [] value.t = "str" -> value.v
    [] value.t = "num" -> IntToStr(value.v)
    [] value.t = "list" ->
         Join(<<",", " ">>, [i \in 1..Len(value.v) |-> value.v[i].v])

ClaimedRow(item) == [c \in 1..9 |-> ClaimedText(ClaimedValue(item, ClaimedCandidates[c]))]

WidgetItem == get_item_details(ProjectItems["A"])

WidgetRow == <<Widget.v, <<>>, <<>>, <<>>, <<>>, <<>>, <<>>, <<>>, alice>>

\* C5: the row of every eligible item in the grid has nine cells, the cell of
\* each column being the text of the first candidate of the column found among
\* the item's attributes and then its custom fields, empty when none is found or
\* its value is missing; the item with a parent, status Completed, assignee
\* alice and Product Widget gives Widget, seven empty cells, alice
C5_RowProjection ==
  (AfterParse /\ filtered_items # <<>>) =>
    \A k \in 1..Len(filtered_items) :
      /\ Len(values) > k
      /\ Len(values[k + 1]) = 9
      /\ values[k + 1] = ClaimedRow(filtered_items[k])
      /\ filtered_items[k] = WidgetItem => values[k + 1] = WidgetRow

\* an item with two assignees, a field named assignees, Dev links but no
\* Dev link, and both Client contacts and Program contacts
C5_Witness ==
  /\ AfterParse
  /\ \E k \in 1..Len(filtered_items) :
       /\ Len(filtered_items[k]["assignees"].v) = 2
       /\ {"assignees", "Dev links", "Client contacts", "Program contacts"}
            \subseteq DOMAIN filtered_items[k]["custom_fields"]
       /\ "Dev link" \notin DOMAIN filtered_items[k]["custom_fields"]
       /\ values[k + 1][2] = <<"L", "2">>
       /\ values[k + 1][8] = <<"c", "c">>
       /\ values[k + 1][9] = <<"a", "l", "i", "c", "e", ",", " ", "b", "o", "b">>

ClaimedHeader ==
  <<<<"P", "r", "o", "d", "u", "c", "t">>,
    <<"D", "e", "v", " ", "l", "i", "n", "k">>,
    <<"H", "i", "g", "h", " ", "p", "r", "o", "f", "i", "l", "e">>,
    <<"R", "e", "l", "e", "a", "s", "e", " ", "t", "y", "p", "e">>,
    <<"P", "r", "o", "d", "u", "c", "t", " ", "t", "y", "p", "e">>,
    <<"A", "n", "t", "i", "c", "i", "p", "a", "t", "e", "d", " ", "r", "e", "l", "e", "a", "s", "e", " ", "d", "a", "t", "e">>,
    <<"C", "l", "i", "e", "n", "t", " ", "o", "r", "g", "a", "n", "i", "z", "a", "t", "i", "o", "n", "/", "b", "r", "a", "n", "c", "h">>,
    <<"P", "r", "o", "g", "r", "a", "m", " ", "c", "o", "n", "t", "a", "c", "t", "s">>,
    <<"A", "s", "s", "i", "g", "n", "e", "e", " ", "(", "d", "e", "v", "e", "l", "o", "p", "e", "r", ")">>>>

\* C6 as stated: the grid handed to the sink always has the header row and one
\* row per eligible item, also for the empty list
C6_AsStated ==
  AfterParse =>
    /\ Len(values) = Len(filtered_items) + 1
    /\ values[1] = ClaimedHeader

\* C6 amended: for a non-empty list of eligible items the grid is the header row
\* followed by the row of each item in the order of the filter; for the empty
\* list the grid has no row at all, not even the header
C6_HeaderAndRows ==
  AfterParse =>
    IF filtered_items = <<>> THEN values = <<>>
    ELSE /\ Len(values) = Len(filtered_items) + 1
         /\ values[1] = ClaimedHeader
         /\ \A k \in 1..Len(filtered_items) : values[k + 1] = RowOf(filtered_items[k])

\* a run whose filter kept two items, one of them with a comma, quotes and a
\* line break in a cell, hands three rows to the sink
C6_Witness ==
  /\ pc = "update"
  /\ Len(filtered_items) = 2
  /\ Len(values) = 3
  /\ \E k \in 2..3 : \E i \in 1..Len(values[k][1]) : values[k][1][i] = "\n"

\* the tab of this run's export
Tab == sheets[TabName(today)]

\* the run ended with export_csv_to_sheet returning True
Succeeded == pc = "done" /\ report = "success"

\* C7 as stated: when export_csv_to_sheet returns success the tab holds exactly
\* the rows of this export and nothing of what it held before
C7_TabIsTheExport == Succeeded => Tab = UpdateCells(EmptyTab, values)

\* C8 as stated: a second successful run on the same date and items leaves the
\* spreadsheet as the first successful run left it
C8_SecondRunChangesNothing ==
  (run = 2 /\ Succeeded /\ prev.report = "success") => sheets = prev.sheets

AllPages == [i \in 1..Len(pages) |-> RawItems(pages[i])]

RECURSIVE Concat(_)
Concat(seqs) == IF seqs = <<>> THEN <<>> ELSE Head(seqs) \o Concat(Tail(seqs))

\* the grid of the eligible items of all the pages of the project
FullGrid ==
  LET items == Concat(AllPages)
      details == [i \in 1..Len(items) |-> get_item_details(items[i])]
  IN csv_reader(export_to_csv(filter_items(details, today)))

Wrote == \E k \in 1..Len(sink) : sink[k] = [op |-> "update", ok |-> TRUE]

\* C9 as stated: a run that writes rows writes the rows of the eligible items of
\* all pages, never those of the pages fetched before a failed page request
C9_NoPartialExport == Wrote => values = FullGrid

\* C10 as stated: when a sink call of the export fails the export reports
\* failure, and it reports success only when the tab was ensured (if enabled),
\* cleared and written
C10_SinkFailureReported ==
  pc = "done" =>
    /\ (\E k \in 1..Len(sink) : ~sink[k].ok) => report = "failed"
    /\ report = "success" =>
         /\ \E k \in 1..Len(sink) : sink[k] = [op |-> "clear", ok |-> TRUE]
         /\ Wrote
         /\ env.create_new_tab =>
              \E k \in 1..Len(sink) : sink[k] = [op |-> "get", ok |-> TRUE]

\* main has not reached export_csv_to_sheet
BeforeSink ==
  pc \in {"main", "get_project_id", "get_view_configuration", "get_project_items",
          "get_item_details", "filter_items", "export_to_csv"}

\* main returned at line 579, 592 or 614
AbortedEarly ==
  pc = "done" /\ report \in {"missing environment", "no project", "no items"}

\* no call of the Sheets service was made in this run and every tab is as the
\* run found it
Untouched == sink = <<>> /\ sheets = prev.sheets

\* the loop of get_project_items has ended and the three stages after it have
\* returned what they compute from its result
StagesFinished ==
  /\ fetch_error \/ cursor + 1 = Len(pages)
  /\ all_items # <<>>
  /\ detailed_items = [i \in 1..Len(all_items) |-> get_item_details(all_items[i])]
  /\ filtered_items = filter_items(detailed_items, today)
  /\ csv_data = export_to_csv(filtered_items)

\* C11: a run makes no sink call (tab lookup or creation, clear, write) and
\* changes no tab before the project-ID lookup, the fetch loop, normalization,
\* filtering and row projection have returned, and a run that aborts early
\* (configuration missing, no project ID, no items returned) ends without any
\* sink call and with every tab unchanged
C11_NoEffectBeforeSink ==
  /\ (BeforeSink \/ AbortedEarly) => Untouched
  /\ (pc = "done" /\ all_items = <<>>) => Untouched
  /\ (sink # <<>> \/ sheets # prev.sheets) => ~BeforeSink /\ StagesFinished

\* a run whose first page request failed returned with "no items" and left the
\* tab of the date as it was
C11_Witness ==
  /\ AbortedEarly
  /\ report = "no items"
  /\ fetch_error
  /\ TabName(today) \in DOMAIN sheets
  /\ Tab = StaleTab
  /\ sink = <<>>

\* get_item_details has returned for every item of this run
AfterDetails ==
  pc \in {"filter_items", "export_to_csv", "create_new_tab", "csv_reader", "clear", "update"}

\* the field name of an entry can be resolved: the entry has a field with a name
Resolved(node) == "field" \in DOMAIN node /\ "name" \in DOMAIN node["field"]

Nothing == [t |-> "nothing"]

\* the value the claim gives an entry: text, else number, else date, else the
\* single-select name when a field is present
ClaimedStored(node) ==
  IF "text" \in DOMAIN node THEN node["text"]
  ELSE IF "number" \in DOMAIN node THEN node["number"]
  ELSE IF "date" \in DOMAIN node THEN node["date"]
  ELSE IF "name" \in DOMAIN node /\ "field" \in DOMAIN node THEN node["name"]
  ELSE Nothing

\* the entries of `nodes` that resolve to `name`
EntriesNamed(nodes, name) ==
  {j \in 1..Len(nodes) : Resolved(nodes[j]) /\ nodes[j]["field"]["name"] = name}

Last(S) == CHOOSE j \in S : \A k \in S : k <= j

ClaimedCustomFields(nodes, custom_fields) ==
  /\ "Unknown Field" \notin DOMAIN custom_fields
  /\ \A name \in DOMAIN custom_fields : EntriesNamed(nodes, name) # {}
  /\ \A j \in 1..Len(nodes) :
       (Resolved(nodes[j]) /\ nodes[j]["field"]["name"] # "Unknown Field") =>
         LET name == nodes[j]["field"]["name"]
         IN /\ name \in DOMAIN custom_fields
            /\ custom_fields[name] = ClaimedStored(nodes[Last(EntriesNamed(nodes, name))])

RECURSIVE IsSubsequence(_, _)
\* s is t with some of its elements left out: nothing added, changed or moved
IsSubsequence(s, t) ==
  IF s = <<>> THEN TRUE
  ELSE IF t = <<>> THEN FALSE
  ELSE IF Head(s) = Head(t) THEN IsSubsequence(Tail(s), Tail(t))
  ELSE IsSubsequence(s, Tail(t))

\* the first k elements of s, and the rest
Prefix(s, k) == SubSeq(s, 1, k)

Suffix(s, k) == SubSeq(s, k + 1, Len(s))

\* C13: the result of filter_items is a subsequence of its input, and for all
\* lists A and B whose concatenation is the list the run filtered, its result
\* is the result for A followed by the result for B
C13_StableAndIndependent ==
  AfterFilter =>
    /\ IsSubsequence(filtered_items, detailed_items)
    /\ \A k \in 0..Len(detailed_items) :
         /\ IsSubsequence(filter_items(Prefix(detailed_items, k), today),
                          Prefix(detailed_items, k))
         /\ filtered_items = filter_items(Prefix(detailed_items, k), today)
                               \o filter_items(Suffix(detailed_items, k), today)

\* a list of two different eligible items around an excluded one was filtered:
\* both are kept, in their order
C13_Witness ==
  /\ AfterFilter
  /\ Len(detailed_items) = 3
  /\ Len(filtered_items) = 2
  /\ filtered_items[1] = detailed_items[1]
  /\ filtered_items[2] = detailed_items[3]
  /\ filtered_items[1] # filtered_items[2]

\* get_project_items has returned in this run
LoopEnded ==
  /\ pc \notin {"main", "get_project_id", "get_view_configuration", "get_project_items"}
  /\ report \notin {"missing environment", "no project"}

\* no cursor, then the end cursors of the pages 1..n-1
Cursors(n) == [k \in 1..n |-> k - 1]

\* while every page request has succeeded: in the loop, the pages up to the
\* cursor were requested once each, in order, and their items collected; after
\* it, so were all the pages, the last being the page without a next one; and
\* before its end no later stage has produced anything nor called the sink
FetchInOrder ==
  /\ (pc = "get_project_items" /\ ~fetch_error) =>
       /\ cursor < Len(pages)
       /\ requested = Cursors(cursor)
       /\ all_items = Concat(Prefix(AllPages, cursor))
  /\ (LoopEnded /\ ~fetch_error) =>
       /\ requested = Cursors(Len(pages))
       /\ all_items = Concat(AllPages)
  /\ ~LoopEnded =>
       /\ detailed_items = <<>>
       /\ filtered_items = <<>>
       /\ csv_data = <<>>
       /\ values = <<>>
       /\ sink = <<>>

\* C14: when every page request succeeds get_project_items returns, with the
\* items of all the pages in page order, having requested each page once with
\* the end cursor of the page before it and stopped at the page without a next
\* page; no normalization, filtering, projection or sink call comes before the
\* end of the loop
C14_FetchAllPages ==
  /\ []FetchInOrder
  /\ (pc = "get_project_items") ~> LoopEnded

\* a project of two pages, one item then two, was fetched with two requests
C14_Witness ==
  /\ pc = "get_item_details"
  /\ ~fetch_error
  /\ Len(pages) = 2
  /\ requested = <<0, 1>>
  /\ Len(all_items) = 3
  /\ all_items = RawItems(pages[1]) \o RawItems(pages[2])

====
